---- MODULE Spec2Model ----
(***************************************************************************)
(* Offline cache gateway of the SecureAI dashboard: the service worker of  *)
(* src/frontend/service-worker.js (install, activate, the fetch router,    *)
(* the cache-first and network-first strategies, background sync, push    *)
(* notifications) and the load and upload functions of the dashboard page  *)
(* (src/frontend/js/main.js).                                              *)
(*                                                                         *)
(* Strings the code searches with String.includes are sequences of tokens: *)
(* a URL is a host (a sequence of tokens), a path and a query, its href is *)
(* their concatenation behind the scheme, and includes is a search for a   *)
(* contiguous sub-sequence.  The tokens are cut so that every needle of    *)
(* the code ('/api/', 'cdnjs.cloudflare.com', 'fonts.googleapis.com') is   *)
(* one token.                                                              *)
(***************************************************************************)
EXTENDS Integers, Sequences, FiniteSets, TLC

\* ------------------------------------------------------------ bounds
\* Body versions a live fetch may return (1..MaxVer).
MaxVer == 2
\* Times the activate handler runs (the first activation and its replays).
MaxActivations == 2
\* Records of the uploads store (identifiers 1..NumRecords).
NumRecords == 3
\* Successful transfers counted per record (the count stops there).
MaxTransfers == 2
\* Items (alerts, cameras, reports) a list endpoint returns (0..MaxItems).
MaxItems == 1

\* ------------------------------------------------------------ constants
CACHE_NAME == "secureai-v1.0.0"
STATIC_CACHE == "secureai-static-v1.0.0"
DYNAMIC_CACHE == "secureai-dynamic-v1.0.0"
\* Partitions a previous deploy may have left behind.
OLD_STATIC_CACHE == "secureai-static-v0.9.0"
OLD_DYNAMIC_CACHE == "secureai-dynamic-v0.9.0"

AllCacheNames ==
    {CACHE_NAME, STATIC_CACHE, DYNAMIC_CACHE, OLD_STATIC_CACHE, OLD_DYNAMIC_CACHE}

None == [status |-> -1, body |-> 0]
\* The rejection of fetch(): a network error, no response at all.
NetworkError == [status |-> 0, body |-> 0]

\* ------------------------------------------------------------ URLs
\* location.origin of the worker.
LocationHost == <<"secureai.example">>

UrlTable ==
    [ index    |-> [host |-> LocationHost, path |-> <<"/", "index.html">>, query |-> <<>>],
      cameras  |-> [host |-> LocationHost, path |-> <<"/", "cameras.json">>, query |-> <<>>],
      api      |-> [host |-> LocationHost, path |-> <<"/api/", "alerts">>, query |-> <<>>],
      apiquery |-> [host |-> LocationHost, path |-> <<"/", "index.html">>,
                    query |-> <<"?next=", "/api/", "alerts">>],
      fonts    |-> [host |-> <<"fonts.googleapis.com">>, path |-> <<"/", "css2">>,
                    query |-> <<"?family=Inter">>],
      cdnjs    |-> [host |-> <<"cdnjs.cloudflare.com">>,
                    path |-> <<"/", "ajax/libs/font-awesome/6.4.0/css/all.min.css">>,
                    query |-> <<>>],
      jsdelivr |-> [host |-> <<"cdn.jsdelivr.net">>,
                    path |-> <<"/", "npm/chart.js@4.4.0/dist/chart.umd.js">>,
                    query |-> <<>>],
      tracker  |-> [host |-> <<"tracker.example">>, path |-> <<"/", "pixel">>,
                    query |-> <<"?ref=", "cdnjs.cloudflare.com">>],
      other    |-> [host |-> <<"other.example">>, path |-> <<"/", "data">>, query |-> <<>>] ]

Urls == DOMAIN UrlTable
Methods == {"GET", "POST"}
Requests == [url : Urls, method : Methods]

\* The entries of STATIC_ASSETS that are in the URL universe.
STATIC_ASSETS == {"index", "fonts", "cdnjs", "jsdelivr"}

Origin(u) == <<"https://">> \o UrlTable[u].host
Href(u) == <<"https://">> \o UrlTable[u].host \o UrlTable[u].path \o UrlTable[u].query
LocationOrigin == <<"https://">> \o LocationHost

\* String.prototype.includes
Includes(s, sub) ==
    \E i \in 1..(Len(s) - Len(sub) + 1) : SubSeq(s, i, i + Len(sub) - 1) = sub

\* ------------------------------------------------------------ the router
\* The early return of the fetch listener: the request is left to the browser.
SkipsRequest(req) ==
    /\ Origin(req.url) # LocationOrigin
    /\ ~Includes(Href(req.url), <<"cdnjs.cloudflare.com">>)
    /\ ~Includes(Href(req.url), <<"fonts.googleapis.com">>)

IsApiRequest(req) == Includes(Href(req.url), <<"/api/">>)

Route(req) ==
    IF SkipsRequest(req) THEN "passthrough"
    ELSE IF IsApiRequest(req) THEN "networkFirst"
    ELSE "cacheFirst"

\* ------------------------------------------------------------ state
VARIABLES
    swState,        \* lifecycle of the worker: parsed, installing, installed,
                    \* activating, activated, redundant
    installFailed,  \* cache.addAll rejected during this install
    skipWaitingCalled,
    cacheNames,     \* names of the partitions that exist (caches.keys())
    staticEntries,  \* URLs held by the static partition
    dynamicEntries, \* URL -> body version held by the dynamic partition, 0: none
    actPc,          \* position of the activate handler
    actSnapshot,    \* cacheNames as caches.keys() returned them
    actPending,     \* caches.delete calls started and not settled
    actDeleted,     \* partitions deleted by the current run of activate
    activateRuns,   \* runs of the activate handler started so far
    clientsClaimed,
    handlers,       \* the fetch events being handled, each with the cache.put
                    \* it started
    unhandledRejections,
    \* background sync
    store,          \* identifiers of the records in the uploads store
    fate,           \* record -> how the server answers its transfer
    dbFaulty,       \* the store's delete requests may fail
    passes,         \* the sync events being handled
    transferred,    \* record -> transfers of it that returned success
    removed,        \* records deleted from the store
    deleteFailed,   \* records whose delete request failed
    \* notifications
    notification,   \* the notification on display and the payload it came from
    windows,        \* URLs of the open window clients (client.url)
    lastClick,      \* what the last notificationclick did
    pushFailed,     \* a push handler threw
    \* the dashboard page (js/main.js)
    booted,         \* DOMContentLoaded: no, loading, charts, ready
    currentSection, \* appState.currentSection
    panels,         \* container id -> what its innerHTML shows
    counters,       \* element id -> textContent of the dashboard counters
    loads,          \* invocations of the load functions
    upload,         \* the upload processVideoFile started
    \* voice commands and the widgets they drive
    voice,          \* the last transcript and what processVoiceCommand did
    darkMode,       \* document.body carries the class dark-theme
    uploadModal,    \* the upload dialog is open
    \* the dashboard charts (js/charts.js)
    chartRefs,      \* canvas -> the module variable of its chart is not null
    chartsLive,     \* canvas -> chart instances bound to it and not destroyed
    refreshes,      \* invocations of initializeCharts and what they await
    canvasReused,   \* new Chart ran on a canvas whose chart was still live
    canvasGuard,    \* the charting library refuses a canvas that is in use
    \* the report date inputs (js/main.js)
    startDate,      \* reportStartDate.value
    endDate,        \* reportEndDate.value
    endMin,         \* reportEndDate.min
    dateNotice      \* the notification the last change listener showed

cacheVars == <<swState, installFailed, skipWaitingCalled, cacheNames, staticEntries,
               dynamicEntries, actPc, actSnapshot, actPending, actDeleted,
               activateRuns, clientsClaimed, handlers, unhandledRejections>>
syncVars == <<store, fate, dbFaulty, passes, transferred, removed, deleteFailed>>
notifVars == <<notification, windows, lastClick, pushFailed>>
pageVars == <<booted, currentSection, panels, counters, loads, upload>>
voiceVars == <<voice, darkMode, uploadModal>>
chartVars == <<chartRefs, chartsLive, refreshes, canvasReused, canvasGuard>>
dateVars == <<startDate, endDate, endMin, dateNotice>>
widgetVars == <<voiceVars, chartVars, dateVars>>
uiVars == <<notifVars, pageVars, widgetVars>>
vars == <<cacheVars, syncVars, uiVars>>

Handlers == {"h1", "h2"}
Passes == {"p1", "p2"}
Records == 1..NumRecords

NoRequest == [url |-> "index", method |-> "GET"]
IdleHandler ==
    [pc |-> "idle", req |-> NoRequest, route |-> "none", netCalls |-> 0,
     live |-> None, result |-> [from |-> "none", status |-> -1, body |-> 0],
     put |-> "none"]

NoEntries == [u \in Urls |-> 0]

\* ------------------------------------------------------------ install
\* self.addEventListener('install', ...): caches.open(STATIC_CACHE) is started.
InstallEvent ==
    /\ swState = "parsed"
    /\ swState' = "installing"
    /\ cacheNames' = cacheNames \cup {STATIC_CACHE}
    /\ UNCHANGED <<installFailed, skipWaitingCalled, staticEntries, dynamicEntries,
                   actPc, actSnapshot, actPending, actDeleted, activateRuns,
                   clientsClaimed, handlers, unhandledRejections,
                   syncVars, uiVars>>

\* What the promise handed to event.waitUntil settles to, given whether
\* cache.addAll rejected: the trailing .catch logs the error and returns, so
\* the chain is fulfilled either way.
InstallPromise(addAllRejected) == "fulfilled"

\* What the runtime does with the worker once the waitUntil promise settled.
AfterInstall(promise) == IF promise = "rejected" THEN "redundant" ELSE "installed"

\* cache.addAll(STATIC_ASSETS) settles: it fetches every asset and stores all
\* of them, or stores none when one of them (failed) cannot be fetched; then
\* the .then / .catch handlers run and the runtime ends the install.
InstallAddAll(failed) ==
    /\ swState = "installing"
    /\ failed \subseteq STATIC_ASSETS
    /\ installFailed' = (failed # {})
    /\ staticEntries' = IF failed = {} THEN staticEntries \cup STATIC_ASSETS
                        ELSE staticEntries
    /\ skipWaitingCalled' = (failed = {})
    /\ swState' = AfterInstall(InstallPromise(failed # {}))
    /\ UNCHANGED <<cacheNames, dynamicEntries, actPc, actSnapshot, actPending,
                   actDeleted, activateRuns, clientsClaimed, handlers, unhandledRejections, syncVars, uiVars>>

\* ------------------------------------------------------------ activate
\* (mutant) || in place of && in the filter
StaleCachesEither(names) == {n \in names : n # STATIC_CACHE \/ n # DYNAMIC_CACHE}

\* (mutant) only the first stale partition is deleted
StaleCachesFirstOnly(names) ==
    LET stale == {n \in names : n # STATIC_CACHE /\ n # DYNAMIC_CACHE}
    IN IF stale = {} THEN {} ELSE {CHOOSE n \in stale : TRUE}

\* The filter of the activate listener: the partitions to delete.
StaleCaches(names) == {n \in names : n # STATIC_CACHE /\ n # DYNAMIC_CACHE}

\* The activate event: of a freshly installed worker, or again for a worker
\* that brings the same partition names (a replay).  caches.keys() is started.
ActivateEvent ==
    /\ \/ swState = "installed"
       \/ swState = "activated" /\ actPc = "idle"
    /\ activateRuns < MaxActivations
    /\ activateRuns' = activateRuns + 1
    /\ swState' = IF swState = "installed" THEN "activating" ELSE swState
    /\ actPc' = "keys"
    /\ actDeleted' = {}
    /\ actSnapshot' = {}
    /\ UNCHANGED <<installFailed, skipWaitingCalled, cacheNames, staticEntries,
                   dynamicEntries, actPending, clientsClaimed, handlers, unhandledRejections, syncVars, uiVars>>

\* caches.keys() resolves; every caches.delete of the filtered names is started
\* (Promise.all over the mapped array).
ActivateKeys ==
    /\ actPc = "keys"
    /\ actSnapshot' = cacheNames
    /\ actPending' = StaleCaches(cacheNames)
    /\ actPc' = "deleting"
    /\ UNCHANGED <<swState, installFailed, skipWaitingCalled, cacheNames, staticEntries,
                   dynamicEntries, actDeleted, activateRuns, clientsClaimed, handlers,
                   unhandledRejections, syncVars, uiVars>>

\* One caches.delete(name) settles (true if the partition existed).
ActivateDelete(n) ==
    /\ actPc = "deleting"
    /\ n \in actPending
    /\ actPending' = actPending \ {n}
    /\ cacheNames' = cacheNames \ {n}
    /\ actDeleted' = IF n \in cacheNames THEN actDeleted \cup {n} ELSE actDeleted
    /\ staticEntries' = IF n = STATIC_CACHE THEN {} ELSE staticEntries
    /\ dynamicEntries' = IF n = DYNAMIC_CACHE THEN NoEntries ELSE dynamicEntries
    /\ UNCHANGED <<swState, installFailed, skipWaitingCalled, actPc, actSnapshot,
                   activateRuns, clientsClaimed, handlers, unhandledRejections, syncVars, uiVars>>

\* Promise.all resolved: self.clients.claim(), and the worker is activated.
ActivateClaim ==
    /\ actPc = "deleting"
    /\ actPending = {}
    /\ actPc' = "idle"
    /\ clientsClaimed' = TRUE
    /\ swState' = "activated"
    /\ UNCHANGED <<installFailed, skipWaitingCalled, cacheNames, staticEntries,
                   dynamicEntries, actSnapshot, actPending, actDeleted, activateRuns,
                   handlers, unhandledRejections, syncVars, uiVars>>

\* ------------------------------------------------------------ fetch
\* What fetch(request) may settle to: a response with an ok status and some
\* body, a response with a non-ok status, or a rejection.
OkResponses == [status : {200}, body : 1..MaxVer]
FetchOutcomes == OkResponses \cup {[status |-> 404, body |-> 0], NetworkError}
ResponseOk(resp) == resp.status >= 200 /\ resp.status <= 299

\* cache.match(request) on the static partition: entries are keyed by GET URL.
StaticMatch(req) ==
    IF req.method = "GET" /\ req.url \in staticEntries
    THEN [status |-> 200, body |-> 0] ELSE None

\* cache.match(request) on the dynamic partition.
DynamicMatch(req) ==
    IF req.method = "GET" /\ dynamicEntries[req.url] # 0
    THEN [status |-> 200, body |-> dynamicEntries[req.url]] ELSE None

\* cache.match('/offline.html') on the static partition.
OfflinePage ==
    IF "offline" \in staticEntries THEN [status |-> 200, body |-> 0] ELSE None

Returned(from, resp) == [from |-> from, status |-> resp.status, body |-> resp.body]

otherCacheVars == <<swState, installFailed, skipWaitingCalled, staticEntries,
                    dynamicEntries, actPc, actSnapshot, actPending, actDeleted,
                    activateRuns, clientsClaimed, unhandledRejections>>

\* The fetch listener: the router either returns without responding or calls
\* event.respondWith with one of the two strategies, which runs up to its
\* first await.
FetchEvent(h, req) ==
    /\ swState = "activated"
    /\ handlers[h].pc \in {"idle", "done", "passthrough"}
    /\ handlers[h].put = "none"
    /\ LET route == Route(req) IN
       handlers' = [handlers EXCEPT ![h] =
           [IdleHandler EXCEPT
              !.req = req,
              !.route = route,
              !.netCalls = IF route = "networkFirst" THEN 1 ELSE 0,
              !.pc = CASE route = "passthrough" -> "passthrough"
                       [] route = "networkFirst" -> "nf_fetch"
                       [] OTHER -> "cf_open"]]
    /\ UNCHANGED <<otherCacheVars, cacheNames, syncVars, uiVars>>

\* --- cacheFirst
\* (mutant) the test of line 89 inverted
ServesCachedInverted(cached) == cached = None

\* line 89: if (cached)
ServesCached(cached) == cached # None

\* await caches.open(STATIC_CACHE)
CfOpen(h) ==
    /\ handlers[h].pc = "cf_open"
    /\ cacheNames' = cacheNames \cup {STATIC_CACHE}
    /\ handlers' = [handlers EXCEPT ![h].pc = "cf_match"]
    /\ UNCHANGED <<otherCacheVars, syncVars, uiVars>>

\* await cache.match(request); a hit is returned, a miss starts fetch(request)
CfMatch(h) ==
    /\ handlers[h].pc = "cf_match"
    /\ LET cached == StaticMatch(handlers[h].req) IN
       handlers' = [handlers EXCEPT ![h] =
           IF ServesCached(cached)
           THEN [@ EXCEPT !.pc = "done", !.result = Returned("static", cached)]
           ELSE [@ EXCEPT !.pc = "cf_fetch", !.netCalls = @ + 1]]
    /\ UNCHANGED <<otherCacheVars, cacheNames, syncVars, uiVars>>

\* await fetch(request) settles
CfFetch(h, resp) ==
    /\ handlers[h].pc = "cf_fetch"
    /\ resp \in FetchOutcomes
    /\ handlers' = [handlers EXCEPT ![h] =
           IF resp = NetworkError
           THEN [@ EXCEPT !.pc = "cf_offline_open"]
           ELSE IF ResponseOk(resp)
           THEN [@ EXCEPT !.pc = "cf_dyn_open", !.live = resp]
           ELSE [@ EXCEPT !.pc = "done", !.live = resp,
                          !.result = Returned("network", resp)]]
    /\ UNCHANGED <<otherCacheVars, cacheNames, syncVars, uiVars>>

\* (mutant) the write-back goes to the static partition
WritesToStatic == STATIC_CACHE

\* line 98: the partition cacheFirst writes a fetched response to
CacheFirstWritesTo == DYNAMIC_CACHE

\* line 131: the partition networkFirst mirrors a fetched response to
NetworkFirstWritesTo == DYNAMIC_CACHE

\* await caches.open(DYNAMIC_CACHE); cache.put(request, response.clone()) is
\* started and not awaited; return response
CfDynOpen(h) ==
    /\ handlers[h].pc = "cf_dyn_open"
    /\ cacheNames' = cacheNames \cup {CacheFirstWritesTo}
    /\ handlers' = [handlers EXCEPT ![h] =
           [@ EXCEPT !.pc = "done", !.put = "pending",
                     !.result = Returned("network", handlers[h].live)]]
    /\ UNCHANGED <<otherCacheVars, syncVars, uiVars>>

\* catch: await caches.open(STATIC_CACHE)
CfOfflineOpen(h) ==
    /\ handlers[h].pc = "cf_offline_open"
    /\ cacheNames' = cacheNames \cup {STATIC_CACHE}
    /\ handlers' = [handlers EXCEPT ![h].pc = "cf_offline_match"]
    /\ UNCHANGED <<otherCacheVars, syncVars, uiVars>>

\* (mutant) without the offline page the error of fetch is thrown again
OfflineFallbackRethrows(page) ==
    IF page # None THEN Returned("offline", page) ELSE Returned("error", NetworkError)

\* lines 110-121: the offline page if the static partition has it, else a
\* new Response of status 503
OfflineFallback(page) ==
    IF page # None THEN Returned("offline", page)
    ELSE [from |-> "synthesized", status |-> 503, body |-> 0]

\* catch: await offlineCache.match('/offline.html'), else the 503 response
CfOfflineMatch(h) ==
    /\ handlers[h].pc = "cf_offline_match"
    /\ handlers' = [handlers EXCEPT ![h] =
           [@ EXCEPT !.pc = "done", !.result = OfflineFallback(OfflinePage)]]
    /\ UNCHANGED <<otherCacheVars, cacheNames, syncVars, uiVars>>

\* --- networkFirst
\* (mutant) a copy in the dynamic partition wins over the live response
PrefersMirrored(live, mirrored) ==
    IF mirrored # None THEN Returned("dynamic", mirrored) ELSE Returned("network", live)

\* line 135: return response.  The strategy hands back the response of the
\* live fetch; mirrored is what the dynamic partition holds for the request.
NetworkFirstReturns(live, mirrored) == Returned("network", live)

\* await fetch(request) settles (the call was made when the strategy started)
NfFetch(h, resp) ==
    /\ handlers[h].pc = "nf_fetch"
    /\ resp \in FetchOutcomes
    /\ handlers' = [handlers EXCEPT ![h] =
           IF resp = NetworkError
           THEN [@ EXCEPT !.pc = "nf_open"]
           ELSE IF ResponseOk(resp)
           THEN [@ EXCEPT !.pc = "nf_dyn_open", !.live = resp]
           ELSE [@ EXCEPT !.pc = "done", !.live = resp,
                          !.result = NetworkFirstReturns(resp, DynamicMatch(handlers[h].req))]]
    /\ UNCHANGED <<otherCacheVars, cacheNames, syncVars, uiVars>>

\* await caches.open(DYNAMIC_CACHE); cache.put started; return response
NfDynOpen(h) ==
    /\ handlers[h].pc = "nf_dyn_open"
    /\ cacheNames' = cacheNames \cup {NetworkFirstWritesTo}
    /\ handlers' = [handlers EXCEPT ![h] =
           [@ EXCEPT !.pc = "done", !.put = "pending",
                     !.result = NetworkFirstReturns(handlers[h].live,
                                                    DynamicMatch(handlers[h].req))]]
    /\ UNCHANGED <<otherCacheVars, syncVars, uiVars>>

\* catch: await caches.open(DYNAMIC_CACHE)
NfOpen(h) ==
    /\ handlers[h].pc = "nf_open"
    /\ cacheNames' = cacheNames \cup {DYNAMIC_CACHE}
    /\ handlers' = [handlers EXCEPT ![h].pc = "nf_match"]
    /\ UNCHANGED <<otherCacheVars, syncVars, uiVars>>

\* (mutant) without a copy a 503 response is made up, as cacheFirst does
NetworkFirstFallbackSynthesizes(cached) ==
    IF cached # None THEN Returned("dynamic", cached)
    ELSE [from |-> "synthesized", status |-> 503, body |-> 0]

\* lines 142-146: the copy of the dynamic partition, or throw error
NetworkFirstFallback(cached) ==
    IF cached # None THEN Returned("dynamic", cached)
    ELSE Returned("error", NetworkError)

\* catch: await cache.match(request); the copy, or throw error
NfMatch(h) ==
    /\ handlers[h].pc = "nf_match"
    /\ handlers' = [handlers EXCEPT ![h] =
           [@ EXCEPT !.pc = "done",
                     !.result = NetworkFirstFallback(DynamicMatch(handlers[h].req))]]
    /\ UNCHANGED <<otherCacheVars, cacheNames, syncVars, uiVars>>

\* (mutant) an entry already stored is kept, as cache.add would not do
PutEntryKeepsOld(old, body) == IF old # 0 THEN old ELSE body

\* cache.put replaces the entry of the request by the whole new response
PutEntry(old, body) == body

\* The cache.put a handler started settles: the entry of a GET request is
\* replaced as a whole in the partition the strategy opened; a request of
\* another method makes put reject, and nothing handles the rejection.
PutSettles(h) ==
    /\ handlers[h].put = "pending"
    /\ handlers' = [handlers EXCEPT ![h].put = "none"]
    /\ LET target == IF handlers[h].route = "cacheFirst" THEN CacheFirstWritesTo
                     ELSE NetworkFirstWritesTo
           url == handlers[h].req.url
       IN IF handlers[h].req.method # "GET"
          THEN /\ unhandledRejections' = TRUE
               /\ UNCHANGED <<dynamicEntries, staticEntries>>
          ELSE IF target = DYNAMIC_CACHE
          THEN /\ dynamicEntries' =
                      [dynamicEntries EXCEPT
                          ![url] = PutEntry(@, handlers[h].live.body)]
               /\ UNCHANGED <<unhandledRejections, staticEntries>>
          ELSE /\ staticEntries' = staticEntries \cup {url}
               /\ UNCHANGED <<unhandledRejections, dynamicEntries>>
    /\ UNCHANGED <<swState, installFailed, skipWaitingCalled, cacheNames,
                   actPc, actSnapshot, actPending, actDeleted, activateRuns,
                   clientsClaimed, syncVars, uiVars>>

\* ------------------------------------------------------------ background sync
\* What a transfer of a record may settle to, by the record's fate: a
\* response with an ok status, a response with another status, a rejection
\* of fetch; a record of fate "any" may meet each of them.
TransferOutcomes(r) ==
    IF fate[r] = "any" THEN {"ok", "status", "throw"} ELSE {fate[r]}
Fates == {"ok", "status", "throw", "any"}

IdlePass ==
    [pc |-> "idle", tag |-> "none", pending |-> <<>>, i |-> 0, outcomes |-> <<>>,
     overlapped |-> FALSE, error |-> "none"]

\* store.getAll(): the records in ascending key order
RECURSIVE SortedSeq(_)
SortedSeq(S) ==
    IF S = {} THEN <<>>
    ELSE LET m == CHOOSE x \in S : \A y \in S : x <= y
         IN <<m>> \o SortedSeq(S \ {m})

Running(p) == passes[p].pc \notin {"idle", "done"}
Current(p) == passes[p].pending[passes[p].i]

\* The sync listener: the tag selects syncAlerts, uploadPendingVideos or
\* nothing; the selected function runs up to its first await.
SyncEvent(p, tag) ==
    /\ swState = "activated"
    /\ ~Running(p)
    /\ tag \in {"sync-alerts", "upload-video", "other"}
    /\ passes' = [q \in Passes |->
          IF q = p
          THEN [IdlePass EXCEPT
                  !.tag = tag,
                  !.overlapped = \E o \in Passes \ {p} :
                                     Running(o) /\ passes[o].tag = "upload-video",
                  !.pc = CASE tag = "sync-alerts" -> "alerts_fetch"
                           [] tag = "upload-video" -> "open"
                           [] OTHER -> "done"]
          ELSE IF Running(q) /\ tag = "upload-video"
               THEN [passes[q] EXCEPT !.overlapped = TRUE]
               ELSE passes[q]]
    /\ UNCHANGED <<cacheVars, uiVars, store, fate, dbFaulty, transferred, removed, deleteFailed>>

\* syncAlerts: the POST settles; a rejection is caught and logged
SyncAlertsFetch(p, outcome) ==
    /\ passes[p].pc = "alerts_fetch"
    /\ outcome \in {"ok", "status", "throw"}
    /\ passes' = [passes EXCEPT ![p].pc = "done", ![p].outcomes = <<outcome>>]
    /\ UNCHANGED <<cacheVars, uiVars, store, fate, dbFaulty, transferred, removed, deleteFailed>>

\* await openDatabase(): resolves, or rejects into the catch of the pass
OpenDatabase(p, fails) ==
    /\ passes[p].pc = "open"
    /\ fails \in BOOLEAN
    /\ fails => dbFaulty
    /\ passes' = [passes EXCEPT ![p] =
          IF fails THEN [@ EXCEPT !.pc = "done", !.error = "open"]
          ELSE [@ EXCEPT !.pc = "getAll"]]
    /\ UNCHANGED <<cacheVars, uiVars, store, fate, dbFaulty, transferred, removed, deleteFailed>>

\* The step after upload number i of the loop is finished: the next upload's
\* fetch, or the end of the pass.
NextUpload(pass) ==
    IF pass.i < Len(pass.pending)
    THEN [pass EXCEPT !.pc = "fetch", !.i = @ + 1]
    ELSE [pass EXCEPT !.pc = "done"]

\* await getPendingUploads(db): the loop starts on the records read
GetPendingUploads(p, fails) ==
    /\ passes[p].pc = "getAll"
    /\ fails \in BOOLEAN
    /\ fails => dbFaulty
    /\ passes' = [passes EXCEPT ![p] =
          IF fails THEN [@ EXCEPT !.pc = "done", !.error = "getAll"]
          ELSE NextUpload([@ EXCEPT !.pending = SortedSeq(store), !.i = 0])]
    /\ UNCHANGED <<cacheVars, uiVars, store, fate, dbFaulty, transferred, removed, deleteFailed>>

\* (mutant) any response counts as a delivery, whatever its status
TransferNotRejected(outcome) == outcome # "throw"

\* line 259: if (response.ok)
TransferConfirmed(outcome) == outcome = "ok"

\* What a rejected fetch does to the pass: the catch is around the whole
\* loop, so the pass ends there.
AfterRejectedTransfer(pass) == [pass EXCEPT !.pc = "done", !.error = "transfer"]

\* await fetch('/api/videos/upload', ...) of the current upload settles
UploadFetch(p, outcome) ==
    /\ passes[p].pc = "fetch"
    /\ outcome \in TransferOutcomes(Current(p))
    /\ LET logged == [passes[p] EXCEPT !.outcomes = Append(@, outcome)] IN
       passes' = [passes EXCEPT ![p] =
          IF outcome = "throw" THEN AfterRejectedTransfer(logged)
          ELSE IF TransferConfirmed(outcome) THEN [logged EXCEPT !.pc = "remove"]
          ELSE NextUpload(logged)]
    /\ transferred' =
          IF outcome = "ok"
          THEN [transferred EXCEPT ![Current(p)] = IF @ < MaxTransfers THEN @ + 1 ELSE @]
          ELSE transferred
    /\ UNCHANGED <<cacheVars, uiVars, store, fate, dbFaulty, removed, deleteFailed>>

\* await removePendingUpload(db, upload.id): the delete request succeeds (also
\* when the record is already gone), or fails into the catch of the pass
RemovePendingUpload(p, fails) ==
    /\ passes[p].pc = "remove"
    /\ fails \in BOOLEAN
    /\ fails => dbFaulty
    /\ IF fails
       THEN /\ passes' = [passes EXCEPT ![p] = [@ EXCEPT !.pc = "done", !.error = "remove"]]
            /\ deleteFailed' = deleteFailed \cup {Current(p)}
            /\ UNCHANGED <<store, removed>>
       ELSE /\ passes' = [passes EXCEPT ![p] = NextUpload(@)]
            /\ store' = store \ {Current(p)}
            /\ removed' = IF Current(p) \in store THEN removed \cup {Current(p)}
                          ELSE removed
            /\ UNCHANGED deleteFailed
    /\ UNCHANGED <<cacheVars, uiVars, fate, dbFaulty, transferred>>

\* ------------------------------------------------------------ notifications
\* JavaScript values of the push payload's fields; a string is a sequence of
\* tokens, as the URLs are.
JsUndefined == [type |-> "undefined", val |-> <<>>]
JsTrue == [type |-> "boolean", val |-> <<"true">>]
JsFalse == [type |-> "boolean", val |-> <<"false">>]
Str(s) == [type |-> "string", val |-> s]

\* ToBoolean: undefined, the empty string and false are falsy.
Truthy(v) ==
    ~ \/ v.type = "undefined"
      \/ v.type = "string" /\ v.val = <<>>
      \/ v = JsFalse

\* (mutant) a || b taken as a ?? b: only a missing value gives way
OrNullish(a, b) == IF a.type # "undefined" THEN a ELSE b

\* a || b
Or(a, b) == IF Truthy(a) THEN a ELSE b

TitleValues == {JsUndefined, Str(<<>>), Str(<<"Intruder">>)}
BodyValues == {JsUndefined, Str(<<>>), Str(<<"Motion at the gate">>)}
TagValues == {JsUndefined, Str(<<>>), Str(<<"camera-3">>)}
InteractionValues == {JsUndefined, JsTrue, JsFalse}
UrlValues ==
    {JsUndefined, Str(<<"/", "alerts.html">>),
     Str(LocationOrigin \o <<"/", "alerts.html">>)}

\* What event.data.json() yields when the payload is a JSON object.
PushObjects ==
    [title : TitleValues, body : BodyValues, tag : TagValues,
     requireInteraction : InteractionValues, url : UrlValues]

\* {} : the data of a push without payload
EmptyObject ==
    [title |-> JsUndefined, body |-> JsUndefined, tag |-> JsUndefined,
     requireInteraction |-> JsUndefined, url |-> JsUndefined]

\* absent: event.data is null; json: the payload is a JSON object;
\* malformed: the payload is not JSON (json() throws) or is the JSON null.
PayloadKinds == {"absent", "json", "malformed"}

DefaultTitle == Str(<<"Security Alert">>)
DefaultBody == Str(<<"New security event detected">>)
DefaultTag == Str(<<"security-alert">>)
DefaultUrl == Str(<<"/">>)

NoNotification ==
    [shown |-> FALSE, kind |-> "absent", payload |-> EmptyObject,
     title |-> JsUndefined, body |-> JsUndefined, tag |-> JsUndefined,
     requireInteraction |-> JsUndefined, url |-> JsUndefined]

\* The URLs the application's windows may show.
AppWindows ==
    {LocationOrigin \o <<"/">>, LocationOrigin \o <<"/", "alerts.html">>}

NoUrl == <<>>
NoClick ==
    [action |-> "none", target |-> NoUrl, before |-> {}, focused |-> NoUrl,
     opened |-> NoUrl]

\* The URL a window opened with a string shows: the string parsed against the
\* worker's location.
Resolve(u) == IF Head(u) = "https://" THEN u ELSE LocationOrigin \o u

\* self.addEventListener('push', ...)
PushEvent(kind, obj) ==
    /\ swState = "activated"
    /\ kind \in PayloadKinds
    /\ obj \in PushObjects
    /\ kind # "json" => obj = EmptyObject
    /\ IF kind = "malformed"
       THEN /\ pushFailed' = TRUE
            /\ UNCHANGED notification
       ELSE /\ notification' =
                [shown |-> TRUE, kind |-> kind, payload |-> obj,
                 title |-> Or(obj.title, DefaultTitle),
                 body |-> Or(obj.body, DefaultBody),
                 tag |-> Or(obj.tag, DefaultTag),
                 requireInteraction |-> Or(obj.requireInteraction, JsFalse),
                 url |-> Or(obj.url, DefaultUrl)]
            /\ UNCHANGED pushFailed
    /\ UNCHANGED <<cacheVars, syncVars, pageVars, widgetVars, windows, lastClick>>

\* self.addEventListener('notificationclick', ...)
NotificationClick(action) ==
    /\ swState = "activated"
    /\ notification.shown
    /\ action \in {"view", "dismiss", ""}
    /\ notification' = NoNotification
    /\ LET urlToOpen == Or(notification.url, DefaultUrl).val
           matching == {w \in windows : w = urlToOpen}
       IN IF action # "view"
          THEN /\ lastClick' = [NoClick EXCEPT !.action = action, !.before = windows]
               /\ UNCHANGED windows
          ELSE IF matching # {}
          THEN /\ lastClick' =
                    [action |-> action, target |-> urlToOpen, before |-> windows,
                     focused |-> CHOOSE w \in matching : TRUE, opened |-> NoUrl]
               /\ UNCHANGED windows
          ELSE /\ lastClick' =
                    [action |-> action, target |-> urlToOpen, before |-> windows,
                     focused |-> NoUrl, opened |-> Resolve(urlToOpen)]
               /\ windows' = windows \cup {Resolve(urlToOpen)}
    /\ UNCHANGED <<cacheVars, syncVars, pageVars, widgetVars, pushFailed>>

NotifIdle ==
    /\ notification = NoNotification
    /\ windows = {}
    /\ lastClick = NoClick
    /\ pushFailed = FALSE

\* ------------------------------------------------------------ the page
Containers == {"recentAlertsList", "cameraGrid", "alertsTimeline", "reportsList"}
CounterIds ==
    {"activeCameras", "normalEvents", "anomaliesDetected", "peopleDetected",
     "alertBadge"}
Loads == {"l1", "l2"}
\* The text the markup of the page gives a counter before any load.
InitialText == Str(<<"markup">>)

\* What a container shows before any load wrote it.
InitialMarkup == "markup"
\* '<div class="loading-state">Loading...</div>'
LoadingState == "Loading..."
\* '<div class="error-state">Failed to load data</div>'
ErrorState == "Failed to load data"
\* The markup of a non-empty list: alerts.map(...).join('')
ItemsMarkup == "items"
\* The join of no items: an empty list.
EmptyList == ""

IdleLoad ==
    [kind |-> "none", pc |-> "idle", failed |-> "none", toast |-> "", items |-> 0]
NoUpload == [pc |-> "idle", file |-> 0, outcome |-> "none", toast |-> ""]

PageIdle ==
    /\ booted = "no"
    /\ currentSection = "dashboard"
    /\ panels = [c \in Containers |-> InitialMarkup]
    /\ counters = [c \in CounterIds |-> InitialText]
    /\ loads = [l \in Loads |-> IdleLoad]
    /\ upload = NoUpload

NoVoice == [command |-> <<>>, branch |-> "none", spoken |-> "", count |-> <<>>]

\* --- the charts
MaxCharts == 2
Canvases == {"activityChart", "eventChart"}
Refreshes == {"r1", "r2"}

\* let activityChart = null; let eventChart = null; and no invocation running.
ChartIdle ==
    /\ chartRefs = [c \in Canvases |-> FALSE]
    /\ chartsLive = [c \in Canvases |-> 0]
    /\ refreshes = [r \in Refreshes |-> "idle"]
    /\ canvasReused = FALSE

\* --- the report date inputs
MaxDay == 2

\* The characters of a date string in the order of their code units.
DateChars == <<"-", "0", "1", "2", "3", "4", "5", "6", "7", "8", "9">>
CodeUnit(c) == CHOOSE i \in 1..Len(DateChars) : DateChars[i] = c
Digit(n) == DateChars[n + 2]

RECURSIVE Decimal(_)
Decimal(n) == IF n < 10 THEN <<Digit(n)>> ELSE Decimal(n \div 10) \o <<Digit(n % 10)>>

RECURSIVE PadStart(_, _)
PadStart(s, width) == IF Len(s) >= width THEN s ELSE PadStart(<<"0">> \o s, width)

\* The value of a date input: the year in four or more digits, the month
\* and the day in two.
DateString(d) ==
    PadStart(Decimal(d.year), 4) \o <<"-">> \o PadStart(Decimal(d.month), 2)
        \o <<"-">> \o PadStart(Decimal(d.day), 2)

\* a < b on strings: code units compared from the left, a proper prefix
\* being smaller.
RECURSIVE StringLess(_, _)
StringLess(a, b) ==
    IF b = <<>> THEN FALSE
    ELSE IF a = <<>> THEN TRUE
    ELSE IF Head(a) # Head(b) THEN CodeUnit(Head(a)) < CodeUnit(Head(b))
    ELSE StringLess(Tail(a), Tail(b))

\* new Date() when the pickers are initialised, and seven days earlier.
Today == [year |-> 2026, month |-> 11, day |-> 10]
DefaultStartDate == [Today EXCEPT !.day = Today.day - 7]

\* The dates a user enters: the picker offers years of up to six digits
\* and max only flags a later date as invalid, its value is kept.
PickedDates == [year : {2026, 10000}, month : {11}, day : 1..MaxDay]
AllDates == PickedDates \cup {Today, DefaultStartDate}
EmptyValue == <<>>
InputValues == {EmptyValue} \cup {DateString(d) : d \in AllDates}

DateIdle ==
    /\ startDate = EmptyValue
    /\ endDate = EmptyValue
    /\ endMin = EmptyValue
    /\ dateNotice = ""

\* The values of the inputs after initializeDatePickers.
InitializeDatePickers ==
    /\ startDate' = DateString(DefaultStartDate)
    /\ endDate' = DateString(Today)
    /\ endMin' = DateString(DefaultStartDate)
    /\ UNCHANGED dateNotice

\* loadReports starts with initializeDatePickers.
InitializeDatePickersIn(section) ==
    IF section = "reports" THEN InitializeDatePickers ELSE UNCHANGED dateVars

\* endDateInput.value after the start input's change listener.
EndAfterStartChange(start, end) ==
    IF start # EmptyValue /\ end # EmptyValue /\ StringLess(end, start) THEN start ELSE end

\* endDateInput.value after the end input's change listener.
EndAfterEndChange(start, end) ==
    IF start # EmptyValue /\ StringLess(end, start) THEN start ELSE end

\* The user sets the start date.  Every listener initializeDatePickers has
\* added runs; after the first the others find nothing to correct.
StartDateChange(value) ==
    /\ endMin # EmptyValue
    /\ value \in InputValues
    /\ startDate' = value
    /\ endMin' = IF value # EmptyValue THEN value ELSE endMin
    /\ endDate' = EndAfterStartChange(value, endDate)
    /\ dateNotice' = IF endDate' # endDate
                      THEN "End date adjusted to match start date"
                      ELSE dateNotice
    /\ UNCHANGED <<cacheVars, syncVars, notifVars, pageVars, voiceVars, chartVars>>

\* The user sets the end date.
EndDateChange(value) ==
    /\ endMin # EmptyValue
    /\ value \in InputValues
    /\ endDate' = EndAfterEndChange(startDate, value)
    /\ dateNotice' = IF startDate # EmptyValue /\ StringLess(value, startDate)
                      THEN "End date cannot be before start date. Date has been corrected."
                      ELSE dateNotice
    /\ UNCHANGED <<cacheVars, syncVars, notifVars, pageVars, voiceVars, chartVars, startDate,
                   endMin>>

WidgetIdle ==
    /\ voice = NoVoice
    /\ darkMode = FALSE
    /\ uploadModal = FALSE
    /\ ChartIdle
    /\ DateIdle

FreeRefreshes == {r \in Refreshes : refreshes[r] = "idle"}

\* createActivityChart up to its first await: the activity fetch is sent.
InitializeCharts(r) == [refreshes EXCEPT ![r] = "activity"]

\* DOMContentLoaded goes on to initializeCharts once loadDashboardData has
\* settled.
BootContinues(l) ==
    IF booted = "loading" /\ l = "l1"
    THEN /\ booted' = "charts"
         /\ refreshes' = InitializeCharts("r1")
    ELSE UNCHANGED <<booted, refreshes>>

\* The page loads chart.js 4.4.0, whose constructor throws when the canvas
\* already carries a chart.
UiIdle == NotifIdle /\ PageIdle /\ WidgetIdle /\ canvasGuard = TRUE

\* --- the load functions
Sections == {"dashboard", "cameras", "alerts", "reports"}

Num(n) == [type |-> "number", val |-> <<n>>]
JsZero == Num(0)

\* ToBoolean of the values a stats field takes: undefined and 0 are falsy.
TruthyStat(v) == Truthy(v) /\ v # JsZero

\* stats.x || 0
OrZero(v) == IF TruthyStat(v) THEN v ELSE JsZero

\* Bodies of GET /dashboard/stats.
StatsPayloads ==
    [activeCameras : {JsUndefined, Num(4)}, normalEvents : {Num(7)},
     anomalies : {JsUndefined, JsZero, Num(2)}, peopleDetected : {Num(9)}]

\* containers[section] of showLoadingState and showErrorState
ContainerOf(section) ==
    CASE section = "dashboard" -> "recentAlertsList"
      [] section = "cameras" -> "cameraGrid"
      [] section = "alerts" -> "alertsTimeline"
      [] section = "reports" -> "reportsList"

\* The message of showNotification in the catch of each load function.
FailureToast(section) ==
    CASE section = "dashboard" -> "Failed to load dashboard data"
      [] section = "cameras" -> "Failed to load cameras"
      [] section = "alerts" -> "Failed to load alerts"
      [] section = "reports" -> "Failed to load reports"

FreeLoads == {l \in Loads : loads[l].pc \in {"idle", "done"}}

\* The start of loadDashboardData, loadCameras, loadAllAlerts or loadReports
\* up to its first await: showLoadingState(section) and the fetch.
Started(section) ==
    [kind |-> section, pc |-> IF section = "dashboard" THEN "stats" ELSE "fetch",
     failed |-> "none", toast |-> "", items |-> 0]

StartLoad(l, section) ==
    /\ l \in FreeLoads
    /\ loads' = [loads EXCEPT ![l] = Started(section)]
    /\ panels' = [panels EXCEPT ![ContainerOf(section)] = LoadingState]

\* setupPeriodicRefresh() runs once the first loadDashboardData has settled.
\* document.addEventListener('DOMContentLoaded', ...)
DomContentLoaded ==
    /\ booted = "no"
    /\ booted' = "loading"
    /\ StartLoad("l1", "dashboard")
    /\ UNCHANGED <<cacheVars, syncVars, notifVars, widgetVars, currentSection, counters, upload>>

\* navigateToSection(section)
NavigateToSection(l, section) ==
    /\ booted # "no"
    /\ section \in Sections
    /\ currentSection' = section
    /\ IF section = "dashboard"
       THEN l = "l1" /\ UNCHANGED <<loads, panels>>
       ELSE StartLoad(l, section)
    /\ InitializeDatePickersIn(section)
    /\ UNCHANGED <<cacheVars, syncVars, notifVars, voiceVars, chartVars, booted, counters,
                   upload>>

\* The interval callback of setupPeriodicRefresh.
\* The charts the module variables hold are destroyed and the variables set
\* to null.
DestroyCharts == [c \in Canvases |-> IF chartRefs[c] THEN chartsLive[c] - 1 ELSE chartsLive[c]]

RefreshCharts(r) ==
    /\ r \in FreeRefreshes
    /\ chartsLive' = DestroyCharts
    /\ chartRefs' = [c \in Canvases |-> FALSE]
    /\ refreshes' = InitializeCharts(r)
    /\ UNCHANGED <<canvasReused, canvasGuard>>

PeriodicRefresh(l, r) ==
    /\ booted = "ready"
    /\ currentSection = "dashboard"
    /\ StartLoad(l, "dashboard")
    /\ RefreshCharts(r)
    /\ UNCHANGED <<cacheVars, syncVars, notifVars, voiceVars, dateVars, booted, currentSection, counters,
                   upload>>

\* new Chart(ctx, ...) of render...Chart and createEmpty...Chart.  On a free
\* canvas the chart is bound and stored in the module variable.  On a canvas
\* still carrying a live chart a guarding library throws, the catch block's
\* createEmpty...Chart throws again and the invocation ends rejected; a
\* library without the guard binds one more chart to the canvas.
Created(canvas) == chartsLive[canvas] = 0 \/ ~canvasGuard

NewChart(r, canvas, next) ==
    /\ canvasReused' = (canvasReused \/ chartsLive[canvas] > 0)
    /\ IF Created(canvas)
       THEN /\ chartsLive[canvas] < MaxCharts
            /\ chartsLive' = [chartsLive EXCEPT ![canvas] = chartsLive[canvas] + 1]
            /\ chartRefs' = [chartRefs EXCEPT ![canvas] = TRUE]
            /\ refreshes' = [refreshes EXCEPT ![r] = next]
       ELSE /\ refreshes' = [refreshes EXCEPT ![r] = "idle"]
            /\ UNCHANGED <<chartsLive, chartRefs>>

\* The fetch of createActivityChart settles; either way a chart is built.
ActivityFetch(r, ok) ==
    /\ refreshes[r] = "activity"
    /\ ok \in BOOLEAN
    /\ NewChart(r, "activityChart", "event")
    /\ UNCHANGED <<cacheVars, syncVars, notifVars, pageVars, voiceVars, dateVars, canvasGuard>>

\* The fetch of createEventChart settles; initializeCharts returns, and at
\* start-up DOMContentLoaded goes on to setupPeriodicRefresh.
EventFetch(r, ok) ==
    /\ refreshes[r] = "event"
    /\ ok \in BOOLEAN
    /\ NewChart(r, "eventChart", "idle")
    /\ booted' = IF booted = "charts" /\ Created("eventChart") THEN "ready" ELSE booted
    /\ UNCHANGED <<cacheVars, syncVars, notifVars, voiceVars, dateVars, canvasGuard,
                   currentSection,
                   panels, counters, loads, upload>>

\* (mutant) the error state is not written: the placeholder stays
ErrorStateLeavesLoading(section) == LoadingState

\* showErrorState(section): the innerHTML it gives the section's container
ShowErrorState(section) == ErrorState

\* The catch of a load function: the toast and showErrorState(section).
LoadFailed(l, what) ==
    /\ loads' = [loads EXCEPT ![l] =
          [@ EXCEPT !.pc = "done", !.failed = what, !.toast = FailureToast(loads[l].kind)]]
    /\ panels' = [panels EXCEPT ![ContainerOf(loads[l].kind)] =
                                     ShowErrorState(loads[l].kind)]

\* (mutant) the badge is fed from the people counter's field
UpdateDashboardStatsBadgeFromPeople(stats) ==
    [c \in CounterIds |->
        CASE c = "activeCameras" -> OrZero(stats.activeCameras)
          [] c = "normalEvents" -> OrZero(stats.normalEvents)
          [] c = "anomaliesDetected" -> OrZero(stats.anomalies)
          [] c = "peopleDetected" -> OrZero(stats.peopleDetected)
          [] c = "alertBadge" -> OrZero(stats.peopleDetected)]

\* updateDashboardStats(stats)
UpdateDashboardStats(stats) ==
    [c \in CounterIds |->
        CASE c = "activeCameras" -> OrZero(stats.activeCameras)
          [] c = "normalEvents" -> OrZero(stats.normalEvents)
          [] c = "anomaliesDetected" -> OrZero(stats.anomalies)
          [] c = "peopleDetected" -> OrZero(stats.peopleDetected)
          [] c = "alertBadge" -> OrZero(stats.anomalies)]

\* loadDashboardData: fetch of /dashboard/stats settles
StatsFetch(l, ok, stats) ==
    /\ loads[l].pc = "stats"
    /\ ok \in BOOLEAN
    /\ stats \in StatsPayloads
    /\ IF ok
       THEN /\ counters' = UpdateDashboardStats(stats)
            /\ loads' = [loads EXCEPT ![l].pc = "recent"]
            /\ UNCHANGED <<panels, booted, refreshes>>
       ELSE /\ LoadFailed(l, "stats")
            /\ BootContinues(l)
            /\ UNCHANGED counters
    /\ UNCHANGED <<cacheVars, syncVars, notifVars, voiceVars, dateVars, chartRefs, chartsLive,
                   canvasReused, canvasGuard, currentSection, upload>>

\* The message of the empty state of each container.
EmptyState(container) ==
    CASE container = "recentAlertsList" -> "No recent alerts"
      [] container = "cameraGrid" -> "No cameras available"
      [] container = "alertsTimeline" -> "No alerts found"
      [] container = "reportsList" -> "No reports generated yet"

\* (mutant) no test of the length: no items render as an empty list
RenderedWithoutEmptyState(container, n) ==
    IF n = 0 THEN EmptyList ELSE ItemsMarkup

\* updateRecentAlerts, updateCamerasGrid, updateAlertsTimeline,
\* updateReportsList: the innerHTML they give the container for n items
Rendered(container, n) ==
    IF n = 0 THEN EmptyState(container) ELSE ItemsMarkup

\* loadRecentAlerts: fetch of /alerts?limit=5 settles;
\* updateRecentAlerts(data.alerts || []), updateRecentAlerts([]) in the catch
RecentAlertsFetch(l, ok, n) ==
    /\ loads[l].pc = "recent"
    /\ ok \in BOOLEAN
    /\ n \in 0..MaxItems
    /\ ~ok => n = 0
    /\ panels' = [panels EXCEPT !["recentAlertsList"] = Rendered("recentAlertsList", n)]
    /\ loads' = [loads EXCEPT ![l] =
          [@ EXCEPT !.pc = "heatmap", !.items = n,
                    !.failed = IF ok THEN @ ELSE "recent"]]
    /\ UNCHANGED <<cacheVars, syncVars, notifVars, widgetVars, booted, currentSection, counters,
                   upload>>

\* loadHeatmap: fetch of /analytics/heatmap settles; loadDashboardData ends
HeatmapFetch(l, ok) ==
    /\ loads[l].pc = "heatmap"
    /\ ok \in BOOLEAN
    /\ loads' = [loads EXCEPT ![l].pc = "done"]
    /\ BootContinues(l)
    /\ UNCHANGED <<cacheVars, syncVars, notifVars, voiceVars, dateVars, chartRefs, chartsLive,
                   canvasReused, canvasGuard, currentSection, panels, counters, upload>>

\* loadCameras, loadAllAlerts, loadReports: the fetch settles;
\* updateCamerasGrid(data.cameras || []) and the like
SectionFetch(l, ok, n) ==
    /\ loads[l].pc = "fetch"
    /\ ok \in BOOLEAN
    /\ n \in 0..MaxItems
    /\ ~ok => n = 0
    /\ IF ~ok
       THEN LoadFailed(l, "fetch")
       ELSE /\ loads' = [loads EXCEPT ![l] = [@ EXCEPT !.pc = "done", !.items = n]]
            /\ panels' = [panels EXCEPT ![ContainerOf(loads[l].kind)] =
                                            Rendered(ContainerOf(loads[l].kind), n)]
    /\ UNCHANGED <<cacheVars, syncVars, notifVars, widgetVars, booted, currentSection, counters,
                   upload>>

\* --- the upload
\* processVideoFile(file) up to xhr.send(formData)
ProcessVideoFile(file, isVideo) ==
    /\ booted # "no"
    /\ upload.pc \in {"idle", "done"}
    /\ file \in Records
    /\ isVideo \in BOOLEAN
    /\ upload' =
          IF isVideo
          THEN [pc |-> "sending", file |-> file, outcome |-> "none", toast |-> ""]
          ELSE [pc |-> "done", file |-> file, outcome |-> "invalid",
                toast |-> "Please upload a valid video file"]
    /\ UNCHANGED <<cacheVars, syncVars, notifVars, widgetVars, booted, currentSection, panels,
                   counters, loads>>

\* xhr.onload
XhrLoad(l, status) ==
    /\ upload.pc = "sending"
    /\ status \in {200, 500}
    /\ uploadModal' = FALSE
    /\ IF status = 200
       THEN /\ upload' = [upload EXCEPT !.pc = "done", !.outcome = "ok",
                                        !.toast = "Video uploaded & processing!"]
            /\ IF currentSection = "dashboard"
               THEN StartLoad(l, "dashboard")
               ELSE l = "l1" /\ UNCHANGED <<loads, panels>>
       ELSE /\ upload' = [upload EXCEPT !.pc = "done", !.outcome = "status",
                                        !.toast = "Upload failed"]
            /\ l = "l1"
            /\ UNCHANGED <<loads, panels>>
    /\ UNCHANGED <<cacheVars, syncVars, notifVars, voice, darkMode, chartVars, dateVars, booted, currentSection, counters>>

\* xhr.onerror: the request could not be made (the network is unavailable)
XhrError ==
    /\ upload.pc = "sending"
    /\ uploadModal' = FALSE
    /\ upload' = [upload EXCEPT !.pc = "done", !.outcome = "error",
                                !.toast = "Upload error"]
    /\ UNCHANGED <<cacheVars, syncVars, notifVars, voice, darkMode, chartVars, dateVars, booted, currentSection, panels,
                   counters, loads>>

\* --- voice commands (js/voice-commands.js)
\* A transcript is lower-cased text, cut into tokens so that every needle of
\* processVoiceCommand is a sequence of whole tokens ('alert' and 'alerts'
\* are <<"alert">> and <<"alert", "s">>).
Sp == " "
Phrase == [
    showDashboard  |-> <<"show", Sp, "dashboard">>,
    showCameras    |-> <<"show", Sp, "camera", "s">>,
    showAlerts     |-> <<"show", Sp, "alert", "s">>,
    showReports    |-> <<"show", Sp, "report", "s">>,
    darkModeOn     |-> <<"dark", Sp, "mode">>,
    lightModeOn    |-> <<"light", Sp, "mode">>,
    howManyAlerts  |-> <<"how", Sp, "many", Sp, "alert", "s">>,
    howManyCameras |-> <<"how", Sp, "many", Sp, "camera", "s">>,
    howManyPeople  |-> <<"how", Sp, "many", Sp, "people">>,
    generateReport |-> <<"generate", Sp, "report">>,
    uploadVideo    |-> <<"upload", Sp, "video">>,
    refreshDashboard |-> <<"refresh", Sp, "dashboard">>,
    whatsTheStatus |-> <<"what", "'s", Sp, "the", Sp, "status">>,
    whatsHappening |-> <<"what", "'s", Sp, "happening">>,
    reload         |-> <<"reload">>,
    peopleDetected |-> <<"people", Sp, "detected">>,
    showYesterday  |-> <<"show", Sp, "yesterday">>,
    showToday      |-> <<"show", Sp, "today", "'s", Sp, "anomal", "ies">>,
    todaysOverview |-> <<"today", "s", Sp, "overview">>,
    help           |-> <<"help">>,
    hello          |-> <<"hello">> ]

\* The phrases the help modal of showVoiceCommandsHelp lists.
Advertised ==
    {"showDashboard", "showCameras", "showAlerts", "showReports", "darkModeOn",
     "lightModeOn", "howManyAlerts", "howManyCameras", "howManyPeople",
     "generateReport", "uploadVideo", "refreshDashboard", "whatsTheStatus",
     "whatsHappening"}

Transcripts == {Phrase[n] : n \in DOMAIN Phrase}

\* The if / else-if chain of processVoiceCommand: the first branch whose test
\* the command passes.
Branch(command) ==
    LET has(needle) == Includes(command, needle)
    IN IF has(<<"dashboard">>) \/ has(<<"home">>) THEN "navDashboard"
       ELSE IF has(<<"camera">>) \/ has(<<"camera", "s">>) THEN "navCameras"
       ELSE IF has(<<"alert">>) \/ has(<<"alert", "s">>) THEN "navAlerts"
       ELSE IF has(<<"report">>) \/ has(<<"report", "s">>) THEN "navReports"
       ELSE IF has(<<"dark", Sp, "mode">>) \/ has(<<"dark", Sp, "theme">>) THEN "dark"
       ELSE IF has(<<"light", Sp, "mode">>) \/ has(<<"light", Sp, "theme">>) THEN "light"
       ELSE IF \/ has(<<"how", Sp, "many", Sp, "alert">>)
               \/ has(<<"number", Sp, "of", Sp, "alert">>) THEN "countAlerts"
       ELSE IF \/ has(<<"how", Sp, "many", Sp, "camera">>)
               \/ has(<<"number", Sp, "of", Sp, "camera">>) THEN "countCameras"
       ELSE IF \/ has(<<"how", Sp, "many", Sp, "people">>)
               \/ has(<<"people", Sp, "detected">>) THEN "countPeople"
       ELSE IF has(<<"generate", Sp, "report">>) THEN "generateReport"
       ELSE IF has(<<"upload", Sp, "video">>) \/ has(<<"upload", Sp, "file">>)
            THEN "upload"
       ELSE IF \/ has(<<"show", Sp, "today">>) \/ has(<<"today", "s">>)
               \/ has(<<"today", "'s">>)
            THEN IF has(<<"anomal">>) \/ has(<<"alert">>) THEN "todayAlerts"
                 ELSE "todayOverview"
       ELSE IF has(<<"show", Sp, "yesterday">>) THEN "yesterday"
       ELSE IF has(<<"refresh">>) \/ has(<<"reload">>) THEN "refresh"
       ELSE IF has(<<"what">>) /\ (has(<<"status">>) \/ has(<<"happening">>))
            THEN "status"
       ELSE IF has(<<"help">>) \/ has(<<"what", Sp, "can", Sp, "you", Sp, "do">>)
            THEN "help"
       ELSE "unknown"

\* The branch each transcript takes.
BranchOf == [command \in Transcripts |-> Branch(command)]

\* The section a branch navigates to, "" when it does not navigate.
NavigatesTo(branch) ==
    CASE branch \in {"navDashboard", "todayOverview"} -> "dashboard"
      [] branch = "navCameras" -> "cameras"
      [] branch \in {"navAlerts", "todayAlerts"} -> "alerts"
      [] branch \in {"navReports", "generateReport"} -> "reports"
      [] OTHER -> ""

\* The text given to speak(), with ${count} where a counter is read.
Spoken(branch, dark) ==
    CASE branch = "navDashboard" -> "Showing dashboard"
      [] branch = "navCameras" -> "Showing cameras"
      [] branch = "navAlerts" -> "Showing alerts"
      [] branch = "navReports" -> "Showing reports"
      [] branch = "dark" ->
            IF dark THEN "Dark mode is already active" ELSE "Dark mode activated"
      [] branch = "light" ->
            IF dark THEN "Light mode activated" ELSE "Light mode is already active"
      [] branch = "countAlerts" -> "There are ${count} alerts today"
      [] branch = "countCameras" -> "There are ${count} active cameras"
      [] branch = "countPeople" -> "${count} people have been detected today"
      [] branch = "generateReport" -> "Opening report generator"
      [] branch = "upload" -> "Opening upload dialog"
      [] branch = "todayAlerts" -> "Showing today's anomalies"
      [] branch = "todayOverview" -> "Showing today's overview"
      [] branch = "yesterday" -> "Loading yesterday's data"
      [] branch = "refresh" -> "Refreshing dashboard"
      [] branch = "status" ->
            "System status: ${cameras} cameras online, ${alerts} alerts today"
      [] branch = "help" -> "You can say: show dashboard, ..."
      [] branch = "unknown" -> "Sorry, I didn't understand that command. ..."

\* The textContent of the counters a branch reads into its sentence.
CountsRead(branch) ==
    CASE branch = "countAlerts" -> <<counters["anomaliesDetected"]>>
      [] branch = "countCameras" -> <<counters["activeCameras"]>>
      [] branch = "countPeople" -> <<counters["peopleDetected"]>>
      [] branch = "status" ->
            <<counters["activeCameras"], counters["anomaliesDetected"]>>
      [] OTHER -> <<>>

\* processVoiceCommand(command), as recognition.onresult calls it
ProcessVoiceCommand(l, command) ==
    /\ booted # "no"
    /\ command \in Transcripts
    /\ LET branch == BranchOf[command]
           section == NavigatesTo(branch)
       IN /\ voice' = [command |-> command, branch |-> branch,
                       spoken |-> Spoken(branch, darkMode),
                       count |-> CountsRead(branch)]
          /\ darkMode' = CASE branch = "dark" -> TRUE
                           [] branch = "light" -> FALSE
                           [] OTHER -> darkMode
          /\ uploadModal' = IF branch = "upload" THEN TRUE ELSE uploadModal
          /\ currentSection' = IF section # "" THEN section ELSE currentSection
          /\ IF section \in {"cameras", "alerts", "reports"}
             THEN StartLoad(l, section)
             ELSE IF branch = "refresh"
             THEN StartLoad(l, "dashboard")
             ELSE l = "l1" /\ UNCHANGED <<loads, panels>>
          /\ InitializeDatePickersIn(section)
    /\ UNCHANGED <<cacheVars, syncVars, notifVars, chartVars, booted, counters, upload>>

\* openUploadModal(), from the click on uploadVideoBtn
OpenUploadModal ==
    /\ booted # "no"
    /\ uploadModal' = TRUE
    /\ UNCHANGED <<cacheVars, syncVars, notifVars, pageVars, voice, darkMode, chartVars, dateVars>>

\* ------------------------------------------------------------ specifications
\* The requests the page issues while the strategies are exercised.
CoreRequests ==
    { [url |-> "index", method |-> "GET"],
      [url |-> "cameras", method |-> "GET"],
      [url |-> "api", method |-> "GET"],
      [url |-> "api", method |-> "POST"],
      [url |-> "jsdelivr", method |-> "GET"] }

SyncIdle ==
    /\ store = {}
    /\ fate = [r \in Records |-> "ok"]
    /\ dbFaulty = FALSE
    /\ passes = [p \in Passes |-> IdlePass]
    /\ transferred = [r \in Records |-> 0]
    /\ removed = {}
    /\ deleteFailed = {}

\* A freshly parsed worker; earlier deploys may have left partitions behind.
Init ==
    /\ swState = "parsed"
    /\ installFailed = FALSE
    /\ skipWaitingCalled = FALSE
    /\ cacheNames \in SUBSET AllCacheNames
    /\ staticEntries = {}
    /\ dynamicEntries = NoEntries
    /\ actPc = "idle"
    /\ actSnapshot = {}
    /\ actPending = {}
    /\ actDeleted = {}
    /\ activateRuns = 0
    /\ clientsClaimed = FALSE
    /\ handlers = [h \in Handlers |-> IdleHandler]
    /\ unhandledRejections = FALSE
    /\ SyncIdle
    /\ UiIdle

HandlerStep(h) ==
    \/ CfOpen(h)
    \/ CfMatch(h)
    \/ \E resp \in FetchOutcomes : CfFetch(h, resp)
    \/ CfDynOpen(h)
    \/ CfOfflineOpen(h)
    \/ CfOfflineMatch(h)
    \/ \E resp \in FetchOutcomes : NfFetch(h, resp)
    \/ NfDynOpen(h)
    \/ NfOpen(h)
    \/ NfMatch(h)
    \/ PutSettles(h)

\* The worker's life from parsing on: install, activate and its replays, and
\* the fetch events of one page request at a time.
Next ==
    \/ InstallEvent
    \/ \E failed \in SUBSET STATIC_ASSETS : InstallAddAll(failed)
    \/ ActivateEvent
    \/ ActivateKeys
    \/ \E n \in AllCacheNames : ActivateDelete(n)
    \/ ActivateClaim
    \/ \E req \in CoreRequests : FetchEvent("h1", req)
    \/ HandlerStep("h1")

Spec == Init /\ [][Next]_vars

\* An activated worker, after an install that populated the static partition
\* or after one whose addAll failed, serving concurrent fetch events.
InitServing ==
    /\ swState = "activated"
    /\ installFailed \in BOOLEAN
    /\ skipWaitingCalled = ~installFailed
    /\ cacheNames \in {{STATIC_CACHE}, {STATIC_CACHE, DYNAMIC_CACHE}}
    /\ staticEntries = IF installFailed THEN {} ELSE STATIC_ASSETS
    /\ dynamicEntries = NoEntries
    /\ actPc = "idle"
    /\ actSnapshot = cacheNames
    /\ actPending = {}
    /\ actDeleted = {}
    /\ activateRuns = 1
    /\ clientsClaimed = TRUE
    /\ handlers = [h \in Handlers |-> IdleHandler]
    /\ unhandledRejections = FALSE
    /\ SyncIdle
    /\ UiIdle

NextServing ==
    \/ \E h \in Handlers, req \in CoreRequests : FetchEvent(h, req)
    \/ \E h \in Handlers : HandlerStep(h)

SpecServing == InitServing /\ [][NextServing]_vars

\* The router alone, over every request of the URL universe.
NextRouter == \E h \in Handlers, req \in Requests : FetchEvent(h, req)

SpecRouter == InitServing /\ [][NextRouter]_vars

\* An activated worker with records left in the uploads store; the server's
\* answer to each record and the health of the store are the environment's.
InitSync ==
    /\ swState = "activated"
    /\ installFailed = FALSE
    /\ skipWaitingCalled = TRUE
    /\ cacheNames = {STATIC_CACHE}
    /\ staticEntries = STATIC_ASSETS
    /\ dynamicEntries = NoEntries
    /\ actPc = "idle"
    /\ actSnapshot = cacheNames
    /\ actPending = {}
    /\ actDeleted = {}
    /\ activateRuns = 1
    /\ clientsClaimed = TRUE
    /\ handlers = [h \in Handlers |-> IdleHandler]
    /\ unhandledRejections = FALSE
    /\ store \in SUBSET Records
    /\ fate \in [Records -> Fates]
    /\ \A r \in Records \ store : fate[r] = "ok"
    /\ dbFaulty \in BOOLEAN
    /\ passes = [p \in Passes |-> IdlePass]
    /\ transferred = [r \in Records |-> 0]
    /\ removed = {}
    /\ deleteFailed = {}
    /\ UiIdle

PassStep(p) ==
    \/ \E outcome \in {"ok", "status", "throw"} : SyncAlertsFetch(p, outcome)
    \/ \E fails \in BOOLEAN : OpenDatabase(p, fails)
    \/ \E fails \in BOOLEAN : GetPendingUploads(p, fails)
    \/ \E outcome \in {"ok", "status", "throw"} : UploadFetch(p, outcome)
    \/ \E fails \in BOOLEAN : RemovePendingUpload(p, fails)

\* Sync events handled one after the other.
NextSync ==
    \/ \E tag \in {"sync-alerts", "upload-video", "other"} : SyncEvent("p1", tag)
    \/ PassStep("p1")

SpecSync == InitSync /\ [][NextSync]_vars

\* The runtime keeps delivering 'upload-video' sync events and the event loop
\* resumes every awaiting pass.
SpecSyncFair ==
    /\ SpecSync
    /\ SF_vars(SyncEvent("p1", "upload-video"))
    /\ WF_vars(PassStep("p1"))

\* An activated worker receiving push messages while application windows are
\* open; the user clicks the notifications on display.
InitNotify ==
    /\ swState = "activated"
    /\ installFailed = FALSE
    /\ skipWaitingCalled = TRUE
    /\ cacheNames = {STATIC_CACHE}
    /\ staticEntries = STATIC_ASSETS
    /\ dynamicEntries = NoEntries
    /\ actPc = "idle"
    /\ actSnapshot = cacheNames
    /\ actPending = {}
    /\ actDeleted = {}
    /\ activateRuns = 1
    /\ clientsClaimed = TRUE
    /\ handlers = [h \in Handlers |-> IdleHandler]
    /\ unhandledRejections = FALSE
    /\ SyncIdle
    /\ PageIdle
    /\ WidgetIdle
    /\ canvasGuard = TRUE
    /\ notification = NoNotification
    /\ windows \in SUBSET AppWindows
    /\ lastClick = NoClick
    /\ pushFailed = FALSE

NextNotify ==
    \/ \E kind \in PayloadKinds, obj \in PushObjects : PushEvent(kind, obj)
    \/ \E action \in {"view", "dismiss", ""} : NotificationClick(action)

SpecNotify == InitNotify /\ [][NextNotify]_vars

\* The dashboard page from DOMContentLoaded on: navigation and the fetches
\* of two overlapping loads settling in any order.
WorkerServing ==
    /\ swState = "activated"
    /\ installFailed = FALSE
    /\ skipWaitingCalled = TRUE
    /\ cacheNames = {STATIC_CACHE}
    /\ staticEntries = STATIC_ASSETS
    /\ dynamicEntries = NoEntries
    /\ actPc = "idle"
    /\ actSnapshot = cacheNames
    /\ actPending = {}
    /\ actDeleted = {}
    /\ activateRuns = 1
    /\ clientsClaimed = TRUE
    /\ handlers = [h \in Handlers |-> IdleHandler]
    /\ unhandledRejections = FALSE
    /\ SyncIdle

InitPage == WorkerServing /\ UiIdle

LoadStep(l) ==
    \/ \E ok \in BOOLEAN, stats \in StatsPayloads : StatsFetch(l, ok, stats)
    \/ \E ok \in BOOLEAN, n \in 0..MaxItems : RecentAlertsFetch(l, ok, n)
    \/ \E ok \in BOOLEAN : HeatmapFetch(l, ok)
    \/ \E ok \in BOOLEAN, n \in 0..MaxItems : SectionFetch(l, ok, n)

NextPage ==
    \/ DomContentLoaded
    \/ \E l \in Loads, section \in Sections : NavigateToSection(l, section)
    \/ \E l \in Loads : LoadStep(l)

SpecPage == InitPage /\ [][NextPage]_vars

\* Uploads from the page, with one load invocation at a time.
NextUploading ==
    \/ DomContentLoaded
    \/ \E section \in Sections : NavigateToSection("l1", section)
    \/ LoadStep("l1")
    \/ \E file \in Records, isVideo \in BOOLEAN : ProcessVideoFile(file, isVideo)
    \/ \E status \in {200, 500} : XhrLoad("l1", status)
    \/ XhrError
    \/ OpenUploadModal

SpecUpload == InitPage /\ [][NextUploading]_vars

FullStats ==
    [activeCameras |-> Num(4), normalEvents |-> Num(7), anomalies |-> Num(2),
     peopleDetected |-> Num(9)]

\* Voice commands on the loaded page, with one load invocation at a time and
\* a server that answers every fetch.
NextVoice ==
    \/ DomContentLoaded
    \/ \E command \in Transcripts : ProcessVoiceCommand("l1", command)
    \/ StatsFetch("l1", TRUE, FullStats)
    \/ RecentAlertsFetch("l1", TRUE, 0)
    \/ HeatmapFetch("l1", TRUE)
    \/ SectionFetch("l1", TRUE, 0)

SpecVoice == InitPage /\ [][NextVoice]_vars

\* The charts: start-up, then periodic refreshes starting while earlier ones
\* still await their fetches, against a server that answers every load of
\* the dashboard, with a charting library of either kind.
InitCharts == WorkerServing /\ NotifIdle /\ PageIdle /\ WidgetIdle /\ canvasGuard \in BOOLEAN

NextCharts ==
    \/ DomContentLoaded
    \/ \E l \in Loads, r \in Refreshes : PeriodicRefresh(l, r)
    \/ \E r \in Refreshes, ok \in BOOLEAN : ActivityFetch(r, ok)
    \/ \E r \in Refreshes, ok \in BOOLEAN : EventFetch(r, ok)
    \/ \E l \in Loads : StatsFetch(l, TRUE, FullStats)
    \/ \E l \in Loads : RecentAlertsFetch(l, TRUE, 0)
    \/ \E l \in Loads : HeatmapFetch(l, TRUE)

SpecCharts == InitCharts /\ [][NextCharts]_vars

\* The report date inputs: the reports section is opened, its list loads,
\* and the user changes the two dates in any order.
NextDates ==
    \/ DomContentLoaded
    \/ \E l \in Loads, section \in Sections : NavigateToSection(l, section)
    \/ \E l \in Loads : SectionFetch(l, TRUE, 0)
    \/ \E value \in InputValues : StartDateChange(value)
    \/ \E value \in InputValues : EndDateChange(value)

SpecDates == InitPage /\ [][NextDates]_vars

\* ============================================================ claims
CurrentCaches == {STATIC_CACHE, DYNAMIC_CACHE}
AllowListedHosts == {<<"cdnjs.cloudflare.com">>, <<"fonts.googleapis.com">>}
CrossOrigin(u) == Origin(u) # LocationOrigin
\* url.host and url.pathname
Host(u) == UrlTable[u].host
Path(u) == UrlTable[u].path

\* C1: a cache-first invocation whose request is in the static partition ends,
\* right after the lookup, with the cached response and without any fetch.
C1_StaticHitNoNetwork ==
    \A h \in Handlers :
        ( /\ handlers[h].route = "cacheFirst"
          /\ handlers[h].pc \notin {"cf_open", "cf_match"}
          /\ StaticMatch(handlers[h].req) # None )
        => /\ handlers[h].pc = "done"
           /\ handlers[h].result = Returned("static", StaticMatch(handlers[h].req))
           /\ handlers[h].netCalls = 0
           /\ handlers[h].live = None

C1_Witness ==
    \E h \in Handlers :
        /\ handlers[h].route = "cacheFirst"
        /\ handlers[h].req = [url |-> "index", method |-> "GET"]
        /\ handlers[h].pc = "done"
        /\ handlers[h].result.from = "static"

\* C2: a network-first invocation whose live fetch brought a response returns
\* that response, whatever the dynamic partition holds for the request.
C2_LiveResponsePreferred ==
    \A h \in Handlers :
        ( /\ handlers[h].route = "networkFirst"
          /\ handlers[h].pc = "done"
          /\ handlers[h].live # None )
        => handlers[h].result = Returned("network", handlers[h].live)

C2_Witness ==
    \E h \in Handlers :
        /\ handlers[h].route = "networkFirst"
        /\ handlers[h].pc = "done"
        /\ handlers[h].live # None
        /\ handlers[h].put = "none"
        /\ DynamicMatch(handlers[h].req) # None
        /\ DynamicMatch(handlers[h].req).body # handlers[h].live.body

\* C3: an install during which an asset of the manifest could not be fetched
\* is never promoted: the worker does not become installed, activating or
\* activated.
C3_FailedInstallNotPromoted ==
    installFailed => swState \notin {"installed", "activating", "activated"}

\* C4: activation never deletes the current static or dynamic partition, and
\* once a run of activate has finished it has deleted exactly the partitions
\* of its snapshot that bear another name.
C4_ActivationDeletesStale ==
    /\ actDeleted \cap CurrentCaches = {}
    /\ (activateRuns > 0 /\ actPc = "idle")
         => /\ actDeleted = actSnapshot \ CurrentCaches
            /\ cacheNames \cap (actSnapshot \ CurrentCaches) = {}
            /\ (actSnapshot \cap CurrentCaches) \subseteq cacheNames

C4_Witness ==
    /\ activateRuns = 1
    /\ actPc = "idle"
    /\ swState = "activated"
    /\ actSnapshot = AllCacheNames
    /\ actDeleted = {CACHE_NAME, OLD_STATIC_CACHE, OLD_DYNAMIC_CACHE}
    /\ cacheNames = CurrentCaches

\* C7: a run of activate that follows an earlier run deletes nothing and
\* leaves every partition of its snapshot in place.
C7_ActivationIdempotent ==
    activateRuns >= 2
        => /\ actDeleted = {}
           /\ actPending = {}
           /\ actPc \in {"deleting", "idle"} => actSnapshot \subseteq cacheNames

C7_Witness ==
    /\ activateRuns = 2
    /\ actPc = "idle"
    /\ swState = "activated"
    /\ actSnapshot = CurrentCaches
    /\ cacheNames = CurrentCaches

\* C9: the router leaves a request untouched exactly when the request is
\* cross-origin and its host is not one of the two allow-listed hosts.
C9_SkipsExactlyUnlistedHosts ==
    \A h \in Handlers :
        handlers[h].pc # "idle"
        => ( handlers[h].route = "passthrough"
             <=> ( /\ CrossOrigin(handlers[h].req.url)
                   /\ Host(handlers[h].req.url) \notin AllowListedHosts ) )

\* C10: a handled request goes to network-first exactly when its path holds
\* the segment '/api/', and to cache-first otherwise.
C10_ApiByPath ==
    \A h \in Handlers :
        handlers[h].route \in {"networkFirst", "cacheFirst"}
        => ( handlers[h].route = "networkFirst"
             <=> Includes(Path(handlers[h].req.url), <<"/api/">>) )

\* A pass stands between the successful transfer of r and its removal.
AwaitingRemoval(r) ==
    \E p \in Passes : passes[p].pc = "remove" /\ Current(p) = r

OnlyKthFails(pass, k) ==
    /\ fate[pass.pending[k]] \in {"status", "throw"}
    /\ \A j \in 1..Len(pass.pending) : j # k => fate[pass.pending[j]] = "ok"

\* C6: a pass in which only the K-th transfer fails, and which no other pass
\* or store failure disturbs, attempts every record it read and leaves
\* exactly the K-th record in the store.
C6_OnlyKthRemains ==
    \A p \in Passes :
        \A k \in 1..Len(passes[p].pending) :
            ( /\ passes[p].pc = "done"
              /\ passes[p].tag = "upload-video"
              /\ ~passes[p].overlapped
              /\ passes[p].error \notin {"open", "getAll", "remove"}
              /\ OnlyKthFails(passes[p], k) )
            => /\ Len(passes[p].outcomes) = Len(passes[p].pending)
               /\ store = {passes[p].pending[k]}

\* C8: while 'upload-video' sync events keep coming, a stored record whose
\* transfer the server accepts whenever it is attempted is eventually removed
\* from the store (the store itself being healthy).
C8_EventualDelivery ==
    \A r \in Records :
        (r \in store /\ fate[r] = "ok" /\ ~dbFaulty) ~> (r \notin store)

\* The live fetch of handler h brought a response with an ok status.
FetchedOk(h) == handlers[h].live # None /\ ResponseOk(handlers[h].live)

\* C11: once cache-first has returned the response of a successful live fetch
\* (of a GET request that missed the static partition), the write has been
\* carried out: the dynamic partition holds an entry for the request.
C11_StoredBeforeReturned ==
    \A h \in Handlers :
        ( /\ handlers[h].route = "cacheFirst"
          /\ handlers[h].pc = "done"
          /\ handlers[h].req.method = "GET"
          /\ FetchedOk(h) )
        => /\ handlers[h].put = "none"
           /\ dynamicEntries[handlers[h].req.url] # 0

\* C12: a cache-first invocation whose lookup missed and whose live fetch was
\* rejected ends with a response, never with the error: the offline page if
\* the static partition holds it, else a response of status 503.
C12_OfflineFallback ==
    \A h \in Handlers :
        ( /\ handlers[h].route = "cacheFirst"
          /\ handlers[h].pc = "done"
          /\ handlers[h].netCalls = 1
          /\ handlers[h].live = None )
        => /\ handlers[h].result.from # "error"
           /\ "offline" \in staticEntries
                => handlers[h].result = [from |-> "offline", status |-> 200, body |-> 0]
           /\ "offline" \notin staticEntries
                => handlers[h].result = [from |-> "synthesized", status |-> 503, body |-> 0]

C12_Witness ==
    \E h \in Handlers :
        /\ handlers[h].route = "cacheFirst"
        /\ handlers[h].pc = "done"
        /\ handlers[h].netCalls = 1
        /\ handlers[h].live = None
        /\ handlers[h].result.status = 503

\* C13: the step that ends a network-first invocation whose live fetch was
\* rejected returns the copy the dynamic partition holds for the request at
\* that moment, or, when it holds none, the error itself.
C13_MirroredCopyOrError ==
    [][ \A h \in Handlers :
          (handlers[h].pc = "nf_match" /\ handlers'[h].pc = "done")
          => LET req == handlers[h].req
                 held == req.method = "GET" /\ dynamicEntries[req.url] # 0
             IN /\ held => handlers'[h].result =
                       [from |-> "dynamic", status |-> 200, body |-> dynamicEntries[req.url]]
                /\ ~held => handlers'[h].result =
                       [from |-> "error", status |-> 0, body |-> 0] ]_vars

C13_Witness ==
    \E h1, h2 \in Handlers :
        /\ handlers[h1].route = "networkFirst" /\ handlers[h1].pc = "done"
        /\ handlers[h1].live = None /\ handlers[h1].result.from = "dynamic"
        /\ handlers[h2].route = "networkFirst" /\ handlers[h2].pc = "done"
        /\ handlers[h2].live = None /\ handlers[h2].result.from = "error"

\* C14: no strategy invocation ends in a rejected response promise and no
\* cache write ends in a rejection that nothing handles.
C14_NothingPropagates ==
    /\ unhandledRejections = FALSE
    /\ \A h \in Handlers :
           handlers[h].pc = "done" => handlers[h].result.from # "error"

\* C16: no step of the fetch handling changes the static partition.
C16_StaticImmutable == [][staticEntries' = staticEntries]_vars

C16_Witness ==
    \E h1, h2 \in Handlers :
        /\ handlers[h1].route = "cacheFirst" /\ handlers[h1].pc = "done"
        /\ FetchedOk(h1) /\ handlers[h1].put = "none"
        /\ handlers[h1].req.method = "GET"
        /\ dynamicEntries[handlers[h1].req.url] = handlers[h1].live.body
        /\ handlers[h2].route = "networkFirst" /\ handlers[h2].pc = "done"
        /\ FetchedOk(h2) /\ handlers[h2].put = "none"
        /\ handlers[h2].req.method = "GET"
        /\ dynamicEntries[handlers[h2].req.url] = handlers[h2].live.body
        /\ staticEntries = STATIC_ASSETS

\* C17: when two invocations for the same GET request have both fetched
\* successfully and both their writes have settled, each made one live fetch
\* of its own and the dynamic partition holds the whole response of one of
\* the two.
C17_LastWriterWins ==
    \A h1, h2 \in Handlers :
        ( /\ h1 # h2
          /\ handlers[h1].req = handlers[h2].req
          /\ handlers[h1].req.method = "GET"
          /\ handlers[h1].pc = "done" /\ handlers[h2].pc = "done"
          /\ FetchedOk(h1) /\ FetchedOk(h2)
          /\ handlers[h1].put = "none" /\ handlers[h2].put = "none" )
        => /\ handlers[h1].netCalls = 1 /\ handlers[h2].netCalls = 1
           /\ dynamicEntries[handlers[h1].req.url]
                \in {handlers[h1].live.body, handlers[h2].live.body}

C17_Witness ==
    /\ handlers["h1"].req = [url |-> "cameras", method |-> "GET"]
    /\ handlers["h2"].req = handlers["h1"].req
    /\ handlers["h1"].pc = "done" /\ handlers["h2"].pc = "done"
    /\ FetchedOk("h1") /\ FetchedOk("h2")
    /\ handlers["h1"].live.body # handlers["h2"].live.body
    /\ handlers["h1"].put = "none" /\ handlers["h2"].put = "none"
    /\ dynamicEntries["cameras"] = handlers["h2"].live.body

\* C18: after a click with the 'view' action, if a window open at the click
\* was showing the target URL that window was focused and none was opened,
\* and otherwise a window was opened at the target URL.
C18_FocusesWindowShowingTarget ==
    lastClick.action = "view"
    => LET target == Resolve(lastClick.target)
       IN IF target \in lastClick.before
          THEN lastClick.focused = target /\ lastClick.opened = NoUrl
          ELSE lastClick.focused = NoUrl /\ lastClick.opened = target

\* The field of the payload is there (it is not undefined).
Given(v) == v.type # "undefined"

EndedInFailure(l) == loads[l].pc = "done" /\ loads[l].failed # "none"

\* C15: once an upload has ended because the request could not be made, the
\* uploads store holds a record for its file.
C15_FailedUploadIsQueued ==
    (upload.pc = "done" /\ upload.outcome = "error") => upload.file \in store

\* C20: a load that has ended after a failed fetch (dashboard stats, recent
\* alerts, cameras, all alerts, reports) has shown a toast, and as long as no
\* other load of the same section is under way its panel shows the error
\* placeholder.
C20_FailureShowsToastAndPlaceholder ==
    \A l \in Loads :
        EndedInFailure(l)
        => /\ loads[l].toast # ""
           /\ (\A k \in Loads \ {l} : loads[k].kind # loads[l].kind)
                => panels[ContainerOf(loads[l].kind)] = ErrorState

\* C21: the step in which loadCameras ends after its fetch failed leaves the
\* cameras panel showing 'Failed to load data'.
C21_CamerasFailureShowsErrorState ==
    [][ \A l \in Loads :
          ( /\ loads[l].kind = "cameras"
            /\ loads[l].pc = "fetch"
            /\ loads'[l].pc = "done"
            /\ loads'[l].failed = "fetch" )
          => panels'["cameraGrid"] = "Failed to load data" ]_vars

C21_Witness ==
    \E l \in Loads :
        /\ loads[l].kind = "cameras"
        /\ loads[l].pc = "done"
        /\ loads[l].failed = "fetch"
        /\ panels["cameraGrid"] = "Failed to load data"

\* C22: the step in which a fetch of the alerts endpoint settles successfully
\* with zero alerts leaves the panel it feeds (the alerts timeline for
\* loadAllAlerts, the recent alerts list for loadRecentAlerts) showing the
\* empty-state message of that panel.
C22_ZeroAlertsShowEmptyState ==
    [][ \A l \in Loads :
          /\ ( /\ loads[l].kind = "alerts"
               /\ loads[l].pc = "fetch"
               /\ loads'[l].pc = "done"
               /\ loads'[l].failed = "none"
               /\ loads'[l].items = 0 )
             => panels'["alertsTimeline"] = "No alerts found"
          /\ ( /\ loads[l].kind = "dashboard"
               /\ loads[l].pc = "recent"
               /\ loads'[l].pc = "heatmap"
               /\ loads'[l].failed = "none"
               /\ loads'[l].items = 0 )
             => panels'["recentAlertsList"] = "No recent alerts" ]_vars

C22_Witness ==
    \E l, k \in Loads :
        /\ loads[l].kind = "alerts" /\ loads[l].pc = "done"
        /\ loads[l].failed = "none" /\ loads[l].items = 0
        /\ panels["alertsTimeline"] = "No alerts found"
        /\ loads[k].kind = "dashboard" /\ loads[k].pc = "heatmap"
        /\ loads[k].failed = "none" /\ loads[k].items = 0
        /\ panels["recentAlertsList"] = "No recent alerts"

\* C23: the step in which loadDashboardData receives the stats leaves every
\* counter showing the value the response gives for it (activeCameras,
\* normalEvents, anomalies, peopleDetected) and the alert badge showing what
\* the anomalies counter shows.
C23_CountersShowStats ==
    [][ \A l \in Loads, stats \in StatsPayloads :
          StatsFetch(l, TRUE, stats)
          => /\ Given(stats.activeCameras)
                  => counters'["activeCameras"] = stats.activeCameras
             /\ Given(stats.normalEvents)
                  => counters'["normalEvents"] = stats.normalEvents
             /\ Given(stats.anomalies)
                  => counters'["anomaliesDetected"] = stats.anomalies
             /\ Given(stats.peopleDetected)
                  => counters'["peopleDetected"] = stats.peopleDetected
             /\ counters'["alertBadge"] = counters'["anomaliesDetected"] ]_vars

C23_Witness ==
    /\ counters["activeCameras"] = Num(4)
    /\ counters["normalEvents"] = Num(7)
    /\ counters["anomaliesDetected"] = Num(2)
    /\ counters["peopleDetected"] = Num(9)
    /\ counters["alertBadge"] = Num(2)
    /\ \E l \in Loads : loads[l].kind = "dashboard" /\ loads[l].pc = "recent"

\* The action the help modal announces for each phrase it lists.
AdvertisedBranch == [
    showDashboard  |-> "navDashboard",
    showCameras    |-> "navCameras",
    showAlerts     |-> "navAlerts",
    showReports    |-> "navReports",
    darkModeOn     |-> "dark",
    lightModeOn    |-> "light",
    howManyAlerts  |-> "countAlerts",
    howManyCameras |-> "countCameras",
    howManyPeople  |-> "countPeople",
    generateReport |-> "generateReport",
    uploadVideo    |-> "upload",
    refreshDashboard |-> "refresh",
    whatsTheStatus |-> "status",
    whatsHappening |-> "status" ]

\* C24: whenever the last command was a phrase the help modal lists,
\* processVoiceCommand took the branch of the category the modal lists it
\* under (a count was spoken, the report generator or the upload dialog was
\* opened, the dashboard was reloaded, the status was spoken), not an earlier
\* navigation branch.
C24_AdvertisedPhrasesAct ==
    \A name \in Advertised :
        voice.command = Phrase[name] => voice.branch = AdvertisedBranch[name]

\* C25: at the lookup of a cache-first invocation for a GET request of which
\* the dynamic partition holds a copy, the invocation ends with that copy and
\* starts no live fetch.
C25_DynamicCopyServed ==
    [][ \A h \in Handlers :
          ( /\ handlers[h].pc = "cf_match"
            /\ handlers[h].req.method = "GET"
            /\ handlers[h].req.url \notin staticEntries
            /\ dynamicEntries[handlers[h].req.url] # 0
            /\ handlers'[h] # handlers[h] )
          => /\ handlers'[h].pc = "done"
             /\ handlers'[h].netCalls = 0
             /\ handlers'[h].result.body = dynamicEntries[handlers[h].req.url] ]_vars

\* C26: after an install that succeeded, a GET request for an asset of the
\* static manifest is routed to cache-first, and once handled it has been
\* answered from the static partition without any live fetch.
C26_ManifestServedFromStatic ==
    \A h \in Handlers :
        ( /\ ~installFailed
          /\ handlers[h].route # "none"
          /\ handlers[h].req.method = "GET"
          /\ handlers[h].req.url \in STATIC_ASSETS )
        => /\ handlers[h].route = "cacheFirst"
           /\ handlers[h].netCalls = 0
           /\ handlers[h].pc = "done" => handlers[h].result.from = "static"

\* C27: no record of the uploads store is posted successfully more than once.
C27_TransferredAtMostOnce == \A r \in Records : transferred[r] <= 1


\* C28: at every moment at most one live chart instance is bound to each
\* chart canvas, and under any interleaving of refreshCharts invocations no
\* chart is constructed on a canvas whose previous chart has not been
\* destroyed.
C28_OneLiveChartPerCanvas ==
    /\ \A c \in Canvases : chartsLive[c] <= 1
    /\ ~canvasReused

\* The calendar date a date string denotes, and calendar order.
DateOf(value) == CHOOSE d \in AllDates : DateString(d) = value
Before(d, e) ==
    \/ d.year < e.year
    \/ d.year = e.year /\ d.month < e.month
    \/ d.year = e.year /\ d.month = e.month /\ d.day < e.day

\* C29: after initializeDatePickers and any sequence of change events on
\* the two inputs, whenever both inputs are non-empty the end date is not
\* before the start date.
C29_EndNotBeforeStart ==
    (endMin # EmptyValue /\ startDate # EmptyValue /\ endDate # EmptyValue)
        => ~Before(DateOf(endDate), DateOf(startDate))
====
